---- MODULE Spec2Model ----
(***************************************************************************)
(* Cube-net geometry core of src/utils.ts: isConnected,                    *)
(* checkGeometricValidity, buildFoldTree and calculateAdjacency, applied   *)
(* to face lists (FaceData: id, x, y).                                     *)
(*                                                                         *)
(* Conventions of the model                                                *)
(*  - a face list is a sequence of records [id, x, y]; color and canvasRef *)
(*    are never read by the four functions and are left out;               *)
(*  - 3D coordinates are kept in half units (a corner at 0.5 is 1), so     *)
(*    that every fold, a rotation by +-PI/2 and translations by 0.5, is    *)
(*    integer arithmetic.  The floating point results of THREE differ from *)
(*    these by at most a few 1e-16, far below EPS = 0.01, so each          *)
(*    distanceTo(..) < EPS comparison has the same outcome;                *)
(*  - the messages of FoldingStatus are Chinese strings in the source; the *)
(*    model names them by ASCII tags (MSG_COUNT, MSG_CONNECT, MSG_OVERLAP).*)
(***************************************************************************)
EXTENDS Integers, Sequences, FiniteSets, TLC

VARIABLES faces, call, connectedRet, statusRet, treeRet, adjacencyRet, fold, app, paint

vars == <<faces, call, connectedRet, statusRet, treeRet, adjacencyRet, fold, app, paint>>

Null == [null |-> TRUE]

Abs(n) == IF n < 0 THEN -n ELSE n

(***************************************************************************)
(* Constants of src/utils.ts                                               *)
(***************************************************************************)
GRID_SIZE == 7

NUM_FACES == 6

\* mutant: the names of the two vertical directions exchanged (y taken as pointing up)
DIRS_YUp ==
  << [dx |-> 0,  dy |-> -1, name |-> "bottom"],
     [dx |-> 0,  dy |-> 1,  name |-> "top"],
     [dx |-> -1, dy |-> 0,  name |-> "left"],
     [dx |-> 1,  dy |-> 0,  name |-> "right"] >>

DIRS ==
  << [dx |-> 0,  dy |-> -1, name |-> "top"],
     [dx |-> 0,  dy |-> 1,  name |-> "bottom"],
     [dx |-> -1, dy |-> 0,  name |-> "left"],
     [dx |-> 1,  dy |-> 0,  name |-> "right"] >>

EdgeSide == {"top", "right", "bottom", "left"}

SIDE_COLORS ==
  [top |-> "#ef4444", right |-> "#22c55e", bottom |-> "#3b82f6", left |-> "#eab308"]

\* "需要正好 6 个正方形。"
MSG_COUNT == "need exactly 6 squares"

\* "所有正方形必须相连。"
MSG_CONNECT == "all squares must be connected"

\* "折叠后发生重叠！"
MSG_OVERLAP == "overlap after folding"

XY(a, b) == [x |-> a, y |-> b]

PRESETS ==
  [ cross     |-> << XY(2,2), XY(2,1), XY(2,3), XY(2,4), XY(1,2), XY(3,2) >>,
    tshape    |-> << XY(2,3), XY(2,2), XY(2,1), XY(1,2), XY(3,2), XY(2,4) >>,
    offset    |-> << XY(1,2), XY(2,2), XY(3,2), XY(4,2), XY(2,1), XY(3,3) >>,
    split     |-> << XY(1,2), XY(2,2), XY(3,2), XY(4,2), XY(2,1), XY(4,3) >>,
    hook      |-> << XY(1,1), XY(2,1), XY(2,2), XY(3,2), XY(4,2), XY(4,3) >>,
    stairs    |-> << XY(1,2), XY(2,2), XY(2,3), XY(3,3), XY(3,4), XY(4,4) >>,
    zshape    |-> << XY(1,1), XY(2,1), XY(2,2), XY(3,2), XY(3,3), XY(4,3) >>,
    rectangle |-> << XY(2,2), XY(3,2), XY(4,2), XY(2,3), XY(3,3), XY(4,3) >>,
    long      |-> << XY(0,3), XY(1,3), XY(2,3), XY(3,3), XY(4,3), XY(5,3) >> ]

(***************************************************************************)
(* 1. isConnected: BFS over the faces at Manhattan distance 1              *)
(***************************************************************************)
RECURSIVE isConnectedLoop_AtMost1(_, _, _)
\* mutant: neighbours at Manhattan distance <= 1, so a face on the same cell counts
isConnectedLoop_AtMost1(fs, visited, queue) ==
  IF queue = <<>> THEN visited
  ELSE LET current == Head(queue)
           neighbors == SelectSeq(fs, LAMBDA f :
                          /\ f.id \notin visited
                          /\ Abs(f.x - current.x) + Abs(f.y - current.y) <= 1)
       IN isConnectedLoop_AtMost1(fs,
                          visited \cup {neighbors[k].id : k \in DOMAIN neighbors},
                          Tail(queue) \o neighbors)

RECURSIVE isConnectedLoop(_, _, _)
\* the while loop: returns the visited set once the queue is empty
isConnectedLoop(fs, visited, queue) ==
  IF queue = <<>> THEN visited
  ELSE LET current == Head(queue)
           neighbors == SelectSeq(fs, LAMBDA f :
                          /\ f.id \notin visited
                          /\ Abs(f.x - current.x) + Abs(f.y - current.y) = 1)
       IN isConnectedLoop(fs,
                          visited \cup {neighbors[k].id : k \in DOMAIN neighbors},
                          Tail(queue) \o neighbors)

isConnected(fs) ==
  IF Len(fs) = 0 THEN TRUE
  ELSE LET start == fs[1]
       IN Cardinality(isConnectedLoop(fs, {start.id}, <<start>>)) = Len(fs)

(***************************************************************************)
(* 2. checkGeometricValidity: fold simulation on (normal, up) pairs        *)
(***************************************************************************)
\* faces.find(f => f.x === nx && f.y === ny): the first match, or Null
Find(fs, nx, ny) ==
  LET hits == SelectSeq(fs, LAMBDA f : f.x = nx /\ f.y = ny)
  IN IF hits = <<>> THEN Null ELSE Head(hits)

\* new Map(faces.map(f => [f.id, f])).get(id): the last face with that id
idMapGet(fs, id) ==
  LET hits == SelectSeq(fs, LAMBDA f : f.id = id)
  IN hits[Len(hits)]

FaceIdsOf(fs) == {fs[k].id : k \in 1..Len(fs)}

Neg(v) == << -v[1], -v[2], -v[3] >>

\* rightVec = up x normal (crossX, crossY, crossZ)
RightVec(normal, up) ==
  << up[2] * normal[3] - up[3] * normal[2],
     up[3] * normal[1] - up[1] * normal[3],
     up[1] * normal[2] - up[2] * normal[1] >>

\* the top and bottom rules without the new up vector
FoldStep_UpKept(name, normal, up) ==
  CASE name = "top"    -> [normal |-> up, up |-> up]
    [] name = "bottom" -> [normal |-> Neg(up), up |-> up]
    [] name = "right"  -> [normal |-> RightVec(normal, up), up |-> up]
    [] name = "left"   -> [normal |-> Neg(RightVec(normal, up)), up |-> up]

\* mutant: the left rule without the negation, so left folds like right
FoldStep_LeftAsRight(name, normal, up) ==
  CASE name = "top"    -> [normal |-> up, up |-> Neg(normal)]
    [] name = "bottom" -> [normal |-> Neg(up), up |-> normal]
    [] name = "right"  -> [normal |-> RightVec(normal, up), up |-> up]
    [] name = "left"   -> [normal |-> RightVec(normal, up), up |-> up]

\* the four direction rules
FoldStep(name, normal, up) ==
  CASE name = "top"    -> [normal |-> up, up |-> Neg(normal)]
    [] name = "bottom" -> [normal |-> Neg(up), up |-> normal]
    [] name = "right"  -> [normal |-> RightVec(normal, up), up |-> up]
    [] name = "left"   -> [normal |-> Neg(RightVec(normal, up)), up |-> up]

\* Math.round on the components (integers here; -0 prints as "0")
MathRound(n) == n

\* nextNormal.map(n => Math.round(n)).join(','): one key per rounded triple
NormalKey(normal) == << MathRound(normal[1]), MathRound(normal[2]), MathRound(normal[3]) >>

RECURSIVE checkDirs_NoAdd(_, _, _, _)
\* mutant: uniqueNormals.add(normalKey) left out, only the root's normal is remembered
checkDirs_NoAdd(fs, cur, d, st) ==
  IF d > Len(DIRS) \/ st.collision THEN st
  ELSE LET dir == DIRS[d]
           currentFace == idMapGet(fs, cur.id)
           neighbor == Find(fs, currentFace.x + dir.dx, currentFace.y + dir.dy)
       IN IF neighbor # Null /\ neighbor.id \notin st.visited
          THEN LET next == FoldStep(dir.name, cur.normal, cur.up)
                   normalKey == NormalKey(next.normal)
               IN IF normalKey \in st.uniqueNormals
                  THEN [st EXCEPT !.collision = TRUE,
                                  !.visited = @ \cup {neighbor.id}]
                  ELSE checkDirs_NoAdd(fs, cur, d + 1,
                         [queue |-> Append(st.queue,
                                      [id |-> neighbor.id, normal |-> next.normal, up |-> next.up]),
                          visited |-> st.visited \cup {neighbor.id},
                          uniqueNormals |-> st.uniqueNormals,
                          collision |-> FALSE])
          ELSE checkDirs_NoAdd(fs, cur, d + 1, st)

RECURSIVE checkDirs(_, _, _, _)
\* the for loop over DIRS for one dequeued entry; st.collision is the early return
checkDirs(fs, cur, d, st) ==
  IF d > Len(DIRS) \/ st.collision THEN st
  ELSE LET dir == DIRS[d]
           currentFace == idMapGet(fs, cur.id)
           neighbor == Find(fs, currentFace.x + dir.dx, currentFace.y + dir.dy)
       IN IF neighbor # Null /\ neighbor.id \notin st.visited
          THEN LET next == FoldStep(dir.name, cur.normal, cur.up)
                   normalKey == NormalKey(next.normal)
               IN IF normalKey \in st.uniqueNormals
                  THEN [st EXCEPT !.collision = TRUE,
                                  !.visited = @ \cup {neighbor.id}]
                  ELSE checkDirs(fs, cur, d + 1,
                         [queue |-> Append(st.queue,
                                      [id |-> neighbor.id, normal |-> next.normal, up |-> next.up]),
                          visited |-> st.visited \cup {neighbor.id},
                          uniqueNormals |-> st.uniqueNormals \cup {normalKey},
                          collision |-> FALSE])
          ELSE checkDirs(fs, cur, d + 1, st)

\* the loop left after two faces have been taken from the queue
checkLoop_TwoFaces(fs, st) ==
  LET first == checkDirs(fs, Head(st.queue), 1, [st EXCEPT !.queue = Tail(@)])
  IN IF first.collision \/ first.queue = <<>> THEN first
     ELSE checkDirs(fs, Head(first.queue), 1, [first EXCEPT !.queue = Tail(@)])

RECURSIVE checkLoop(_, _)
\* the while loop over the queue
checkLoop(fs, st) ==
  IF st.collision \/ st.queue = <<>> THEN st
  ELSE checkLoop(fs, checkDirs(fs, Head(st.queue), 1, [st EXCEPT !.queue = Tail(@)]))

\* the fold simulation of lines 90-157, entered after the two early returns
FoldStart(fs) ==
  LET root == fs[1]
  IN [queue |-> << [id |-> root.id, normal |-> <<0, 0, 1>>, up |-> <<0, 1, 0>>] >>,
      visited |-> {root.id},
      uniqueNormals |-> {NormalKey(<<0, 0, 1>>)},
      collision |-> FALSE]

\* the return value once the loop is left
FoldResult(st) ==
  IF st.collision THEN [isValid |-> FALSE, message |-> MSG_OVERLAP]
  ELSE [isValid |-> TRUE]

FoldVerdict(fs) == FoldResult(checkLoop(fs, FoldStart(fs)))

\* mutant: the connectivity test placed before the count test
checkGeometricValidity_ConnectFirst(fs) ==
  IF ~isConnected(fs) THEN [isValid |-> FALSE, message |-> MSG_CONNECT]
  ELSE IF Len(fs) # NUM_FACES THEN [isValid |-> FALSE, message |-> MSG_COUNT]
  ELSE FoldVerdict(fs)

\* mutant: the connectivity test left out
checkGeometricValidity_NoConnect(fs) ==
  IF Len(fs) # NUM_FACES THEN [isValid |-> FALSE, message |-> MSG_COUNT]
  ELSE FoldVerdict(fs)

checkGeometricValidity(fs) ==
  IF Len(fs) # NUM_FACES THEN [isValid |-> FALSE, message |-> MSG_COUNT]
  ELSE IF ~isConnected(fs) THEN [isValid |-> FALSE, message |-> MSG_CONNECT]
  ELSE FoldVerdict(fs)

(***************************************************************************)
(* 3. buildFoldTree: root closest to the centroid, then BFS over DIRS.     *)
(* FaceNode objects live in a heap: tree.nodes[ref] is a node, children    *)
(* hold references (positions in nodes), the root is reference 1.          *)
(***************************************************************************)
RECURSIVE SumBy(_, _, _)
\* faces.reduce((sum, f) => sum + f.x, 0) for coord = "x", likewise "y"
SumBy(fs, coord, k) ==
  IF k > Len(fs) THEN 0 ELSE fs[k][coord] + SumBy(fs, coord, k + 1)

\* minDist = 999
INITIAL_MIN_DIST == 999

\* dist of f to (avgX, avgY), as Len(fs)^2 * dist^2: an exact integer.  The
\* code computes dist in double precision, which rounds avgX, avgY and every
\* later operation, so a smaller integer gives a smaller double but two equal
\* integers need not give equal doubles.
Dist2(fs, f) ==
  LET n == Len(fs)
      ex == n * f.x - SumBy(fs, "x", 1)
      ey == n * f.y - SumBy(fs, "y", 1)
  IN ex * ex + ey * ey

RECURSIVE OddPart(_)
OddPart(n) == IF n % 2 = 0 THEN OddPart(n \div 2) ELSE n

\* sum / faces.length is a binary fraction, which the division does not round
AvgExact(fs, coord) == SumBy(fs, coord, 1) % OddPart(Len(fs)) = 0

\* what fixes the double |f[coord] - avg|: the exact value when avg is not
\* rounded, otherwise the operands of the same division and subtraction
DevKey(fs, coord, f) ==
  IF AvgExact(fs, coord)
  THEN <<-1, Abs(Len(fs) * f[coord] - SumBy(fs, coord, 1))>>
  ELSE <<SumBy(fs, coord, 1), f[coord]>>

\* f and g get the same double dist: nothing is rounded before the square root,
\* or the two squares that are added are the same two doubles
SameDist(fs, f, g) ==
  /\ Dist2(fs, f) = Dist2(fs, g)
  /\ \/ AvgExact(fs, "x") /\ AvgExact(fs, "y")
     \/ DevKey(fs, "x", f) = DevKey(fs, "x", g) /\ DevKey(fs, "y", f) = DevKey(fs, "y", g)
     \/ DevKey(fs, "x", f) = DevKey(fs, "y", g) /\ DevKey(fs, "y", f) = DevKey(fs, "x", g)

\* for (const f of faces) if (dist < minDist) { minDist = dist; rootFace = f }
\* The positions the scan can end on.  It ends on the first face whose double
\* dist is the least below minDist = 999.  That face is at the least exact
\* distance, and no earlier face has the same double; which of several faces at
\* the least exact distance has the least double is left to the rounding
\* (Math.pow and Math.sqrt return implementation-approximated values).
RootFaces(fs) ==
  LET n == Len(fs)
      below == {k \in 1..n :
                  Dist2(fs, fs[k]) < INITIAL_MIN_DIST * INITIAL_MIN_DIST * n * n}
      least == {k \in below : \A j \in below : Dist2(fs, fs[k]) <= Dist2(fs, fs[j])}
  IN IF below = {} THEN {1}
     ELSE {k \in least : \A j \in least : j < k => ~SameDist(fs, fs[j], fs[k])}

RECURSIVE treeDirs(_, _, _, _)
\* a new node is put at the front of its parent's children
treeDirs_ChildInFront(fs, cur, d, st) ==
  IF d > Len(DIRS) THEN st
  ELSE LET dir == DIRS[d]
           neighbor == Find(fs, cur.face.x + dir.dx, cur.face.y + dir.dy)
       IN IF neighbor # Null /\ neighbor.id \notin st.visited
          THEN LET newRef == Len(st.nodes) + 1
                   newNode == [id |-> neighbor.id,
                               directionFromParent |-> dir.name,
                               children |-> <<>>,
                               depth |-> cur.depth + 1]
               IN treeDirs(fs, cur, d + 1,
                    [nodes |-> Append([st.nodes EXCEPT ![cur.parentNode].children =
                                                          <<newRef>> \o @], newNode),
                     visited |-> st.visited \cup {neighbor.id},
                     queue |-> Append(st.queue,
                                 [face |-> neighbor, parentNode |-> newRef,
                                  depth |-> cur.depth + 1])])
          ELSE treeDirs(fs, cur, d + 1, st)

\* the for loop over DIRS for one dequeued entry cur = {face, parentNode, depth}
treeDirs(fs, cur, d, st) ==
  IF d > Len(DIRS) THEN st
  ELSE LET dir == DIRS[d]
           neighbor == Find(fs, cur.face.x + dir.dx, cur.face.y + dir.dy)
       IN IF neighbor # Null /\ neighbor.id \notin st.visited
          THEN LET newRef == Len(st.nodes) + 1
                   newNode == [id |-> neighbor.id,
                               directionFromParent |-> dir.name,
                               children |-> <<>>,
                               depth |-> cur.depth + 1]
               IN treeDirs(fs, cur, d + 1,
                    [nodes |-> Append([st.nodes EXCEPT ![cur.parentNode].children =
                                                          Append(@, newRef)], newNode),
                     visited |-> st.visited \cup {neighbor.id},
                     queue |-> Append(st.queue,
                                 [face |-> neighbor, parentNode |-> newRef,
                                  depth |-> cur.depth + 1])])
          ELSE treeDirs(fs, cur, d + 1, st)

\* only the root is taken from the queue
treeLoop_RootOnly(fs, st) ==
  treeDirs(fs, Head(st.queue), 1, [st EXCEPT !.queue = Tail(@)])

RECURSIVE treeLoop(_, _)
\* the while loop: entries leave the queue in the order they were added
treeLoop(fs, st) ==
  IF st.queue = <<>> THEN st
  ELSE treeLoop(fs, treeDirs(fs, Head(st.queue), 1, [st EXCEPT !.queue = Tail(@)]))

\* the tree grown from a root face: the breadth-first loop over the queue
growTree(fs, rootFace) ==
  LET rootNode == [id |-> rootFace.id, directionFromParent |-> "root",
                   children |-> <<>>, depth |-> 0]
      final == treeLoop(fs,
                 [nodes |-> <<rootNode>>,
                  visited |-> {rootFace.id},
                  queue |-> << [face |-> rootFace, parentNode |-> 1, depth |-> 0] >>])
  IN [root |-> 1, nodes |-> final.nodes]

\* no tree when the tree does not hold every face
buildFoldTree_NullOnPartial(fs) ==
  IF Len(fs) = 0 THEN {Null}
  ELSE {IF Len(growTree(fs, fs[k]).nodes) = Len(fs) THEN growTree(fs, fs[k]) ELSE Null :
          k \in RootFaces(fs)}

\* the values buildFoldTree(faces) can return: one for each face the root
\* selection can end on
buildFoldTree(fs) ==
  IF Len(fs) = 0 THEN {Null}
  ELSE {growTree(fs, fs[k]) : k \in RootFaces(fs)}

(***************************************************************************)
(* 4. calculateAdjacency: fold along the tree with rigid transforms.       *)
(* A Matrix4 is [R |-> 3x3 rotation rows, t |-> translation] in half units.*)
(***************************************************************************)
Identity4 == [R |-> << <<1, 0, 0>>, <<0, 1, 0>>, <<0, 0, 1>> >>, t |-> <<0, 0, 0>>]

Dot(u, v) == u[1] * v[1] + u[2] * v[2] + u[3] * v[3]

Col(R, c) == << R[1][c], R[2][c], R[3][c] >>

\* R * v + t
applyMatrix4(v, m) ==
  << Dot(m.R[1], v) + m.t[1], Dot(m.R[2], v) + m.t[2], Dot(m.R[3], v) + m.t[3] >>

\* a.multiply(b) = a * b
multiply(a, b) ==
  LET Row(r) == << Dot(a.R[r], Col(b.R, 1)), Dot(a.R[r], Col(b.R, 2)), Dot(a.R[r], Col(b.R, 3)) >>
  IN [R |-> << Row(1), Row(2), Row(3) >>,
      t |-> applyMatrix4(b.t, a)]

makeTranslation(v) == [R |-> Identity4.R, t |-> v]

\* makeRotationAxis(axis, angle) for angle = sinA * PI/2: cos = 0, sin = sinA, t = 1 - cos = 1
makeRotationAxis(axis, sinA) ==
  LET x == axis[1]
      y == axis[2]
      z == axis[3]
  IN [R |-> << << x * x,            x * y - sinA * z, x * z + sinA * y >>,
               << x * y + sinA * z, y * y,            y * z - sinA * x >>,
               << x * z - sinA * y, y * z + sinA * x, z * z >> >>,
      t |-> <<0, 0, 0>>]

\* the left hinge turned by PI/2 like the right hinge
Hinge_LeftSign(direction) ==
  CASE direction = "top"    -> [pivot |-> <<0, 1, 0>>,  axis |-> <<1, 0, 0>>, sinA |-> -1]
    [] direction = "bottom" -> [pivot |-> <<0, -1, 0>>, axis |-> <<1, 0, 0>>, sinA |-> 1]
    [] direction = "left"   -> [pivot |-> <<-1, 0, 0>>, axis |-> <<0, 1, 0>>, sinA |-> 1]
    [] direction = "right"  -> [pivot |-> <<1, 0, 0>>,  axis |-> <<0, 1, 0>>, sinA |-> 1]

\* mutant: the bottom hinge turned by -PI/2 like the top hinge
Hinge_BottomSign(direction) ==
  CASE direction = "top"    -> [pivot |-> <<0, 1, 0>>,  axis |-> <<1, 0, 0>>, sinA |-> -1]
    [] direction = "bottom" -> [pivot |-> <<0, -1, 0>>, axis |-> <<1, 0, 0>>, sinA |-> -1]
    [] direction = "left"   -> [pivot |-> <<-1, 0, 0>>, axis |-> <<0, 1, 0>>, sinA |-> -1]
    [] direction = "right"  -> [pivot |-> <<1, 0, 0>>,  axis |-> <<0, 1, 0>>, sinA |-> 1]

\* the two switch statements: pivot = offsetToCenter (in half units), axis, sign of the angle
Hinge(direction) ==
  CASE direction = "top"    -> [pivot |-> <<0, 1, 0>>,  axis |-> <<1, 0, 0>>, sinA |-> -1]
    [] direction = "bottom" -> [pivot |-> <<0, -1, 0>>, axis |-> <<1, 0, 0>>, sinA |-> 1]
    [] direction = "left"   -> [pivot |-> <<-1, 0, 0>>, axis |-> <<0, 1, 0>>, sinA |-> -1]
    [] direction = "right"  -> [pivot |-> <<1, 0, 0>>,  axis |-> <<0, 1, 0>>, sinA |-> 1]

\* localMatrix = matPivot * matRot * translation(offsetToCenter); identity for the root
LocalMatrix(direction) ==
  IF direction = "root" THEN Identity4
  ELSE LET h == Hinge(direction)
       IN multiply(multiply(multiply(Identity4, makeTranslation(h.pivot)),
                            makeRotationAxis(h.axis, h.sinA)),
                   makeTranslation(h.pivot))

\* TL, TR, BR, BL of the unit square, in half units
CORNERS == << <<-1, 1, 0>>, <<1, 1, 0>>, <<1, -1, 0>>, <<-1, -1, 0>> >>

RECURSIVE traverse(_, _, _)
RECURSIVE traverseChildren(_, _, _, _)
\* traverse(node, parentMatrix): the faceCorners pushed by this call, in order
traverse(tree, ref, parentMatrix) ==
  LET node == tree.nodes[ref]
      globalMatrix == multiply(parentMatrix, LocalMatrix(node.directionFromParent))
      corners == << applyMatrix4(CORNERS[1], globalMatrix), applyMatrix4(CORNERS[2], globalMatrix),
                    applyMatrix4(CORNERS[3], globalMatrix), applyMatrix4(CORNERS[4], globalMatrix) >>
  IN << [id |-> node.id, corners |-> corners] >>
       \o traverseChildren(tree, node.children, 1, globalMatrix)

\* node.children.forEach(c => traverse(c, globalMatrix))
traverseChildren(tree, children, k, globalMatrix) ==
  IF k > Len(children) THEN <<>>
  ELSE traverse(tree, children[k], globalMatrix)
         \o traverseChildren(tree, children, k + 1, globalMatrix)

\* edgeDefs with the bottom edge running from BL to BR
edgeDefs_BottomFlipped ==
  << [side |-> "top",    i1 |-> 0, i2 |-> 1],
     [side |-> "right",  i1 |-> 1, i2 |-> 2],
     [side |-> "bottom", i1 |-> 3, i2 |-> 2],
     [side |-> "left",   i1 |-> 3, i2 |-> 0] >>

\* corner indices i1, i2 are 0-based in the source; corners[i + 1] here
edgeDefs ==
  << [side |-> "top",    i1 |-> 0, i2 |-> 1],
     [side |-> "right",  i1 |-> 1, i2 |-> 2],
     [side |-> "bottom", i1 |-> 2, i2 |-> 3],
     [side |-> "left",   i1 |-> 3, i2 |-> 0] >>

\* EPS = 0.01 as EPS_NUM / EPS_DEN
EPS_NUM == 1

EPS_DEN == 100

\* p.distanceTo(q) < EPS; coordinates are in half units, so 2 * distance < 2 * EPS
Near(p, q) ==
  LET d2 == (p[1] - q[1]) * (p[1] - q[1]) + (p[2] - q[2]) * (p[2] - q[2])
              + (p[3] - q[3]) * (p[3] - q[3])
  IN d2 * EPS_DEN * EPS_DEN < 4 * EPS_NUM * EPS_NUM

matchDirect(f1, e1, f2, e2) ==
  /\ Near(f1.corners[e1.i1 + 1], f2.corners[e2.i1 + 1])
  /\ Near(f1.corners[e1.i2 + 1], f2.corners[e2.i2 + 1])

matchSwap(f1, e1, f2, e2) ==
  /\ Near(f1.corners[e1.i1 + 1], f2.corners[e2.i2 + 1])
  /\ Near(f1.corners[e1.i2 + 1], f2.corners[e2.i1 + 1])

\* the iterations (j, e2), numbered in loop order, that assign map[f1.id][e1.side]
\* for f1 = faceCorners[i]: iteration n has j = IterJ(n) and e2 = IterE2(n)
IterJ(n) == ((n - 1) \div Len(edgeDefs)) + 1

IterE2(n) == edgeDefs[((n - 1) % Len(edgeDefs)) + 1]

Assignments(faceCorners, i, e1) ==
  {n \in 1..(Len(faceCorners) * Len(edgeDefs)) :
     /\ IterJ(n) # i
     /\ \/ matchDirect(faceCorners[i], e1, faceCorners[IterJ(n)], IterE2(n))
        \/ matchSwap(faceCorners[i], e1, faceCorners[IterJ(n)], IterE2(n))}

\* mutant: targetSide taken from e1, the side of the source face
Connection_SourceSide(faceCorners, i, e1, n) ==
  [targetFaceId |-> faceCorners[IterJ(n)].id,
   targetSide |-> e1.side,
   color |-> SIDE_COLORS[e1.side],
   reversed |-> matchSwap(faceCorners[i], e1, faceCorners[IterJ(n)], IterE2(n))]

\* the connection written by iteration n
Connection(faceCorners, i, e1, n) ==
  [targetFaceId |-> faceCorners[IterJ(n)].id,
   targetSide |-> IterE2(n).side,
   color |-> SIDE_COLORS[e1.side],
   reversed |-> matchSwap(faceCorners[i], e1, faceCorners[IterJ(n)], IterE2(n))]

RECURSIVE sideLoop(_, _, _, _)
\* map[f1.id] after the j, e1, e2 loops: for each side the last assignment stays
sideLoop(faceCorners, i, e, entries) ==
  IF e > Len(edgeDefs) THEN entries
  ELSE LET as == Assignments(faceCorners, i, edgeDefs[e])
       IN IF as = {} THEN sideLoop(faceCorners, i, e + 1, entries)
          ELSE LET last == CHOOSE n \in as : \A m \in as : m <= n
               IN sideLoop(faceCorners, i, e + 1,
                    (edgeDefs[e].side :> Connection(faceCorners, i, edgeDefs[e], last)) @@ entries)

FaceEntries(faceCorners, i) == sideLoop(faceCorners, i, 1, [k \in {} |-> 0])

RECURSIVE mapLoop(_, _, _)
\* for (let i ...) { map[f1.id] = {}; ... }
mapLoop(faceCorners, i, map) ==
  IF i > Len(faceCorners) THEN map
  ELSE mapLoop(faceCorners, i + 1,
               (faceCorners[i].id :> FaceEntries(faceCorners, i)) @@ map)

\* an AdjacencyMap is a function from face ids to functions from sides to connections
EmptyMap == [k \in {} |-> 0]

\* the part of calculateAdjacency after const tree = buildFoldTree(faces)
adjacencyOf(tree) ==
  IF tree = Null THEN EmptyMap
  ELSE mapLoop(traverse(tree, tree.root, Identity4), 1, EmptyMap)

\* without the test of isConnected(faces)
calculateAdjacency_CountOnly(fs) ==
  IF Len(fs) # NUM_FACES THEN {[tree |-> Null, map |-> EmptyMap]}
  ELSE {[tree |-> tree, map |-> adjacencyOf(tree)] : tree \in buildFoldTree(fs)}

\* the values calculateAdjacency(faces) can return, each with the tree it was
\* computed from (Null when buildFoldTree is not reached)
calculateAdjacency(fs) ==
  IF Len(fs) # NUM_FACES \/ ~isConnected(fs) THEN {[tree |-> Null, map |-> EmptyMap]}
  ELSE {[tree |-> tree, map |-> adjacencyOf(tree)] : tree \in buildFoldTree(fs)}


(***************************************************************************)
(* Inputs: the face lists the four functions are applied to                *)
(***************************************************************************)
\* translations applied to each hexomino: 0..MaxShift in x and in y
MaxShift == 1

\* short lists: every list of at most MaxSmallLen faces on a SmallGrid x SmallGrid board
MaxSmallLen == 3

SmallGrid == 2

Neighbours(c) == {XY(c.x + DIRS[d].dx, c.y + DIRS[d].dy) : d \in DOMAIN DIRS}

MinOf(S) == CHOOSE m \in S : \A n \in S : m <= n

\* the cells moved so that the least x and the least y are 0
Normalise(S) ==
  LET mx == MinOf({c.x : c \in S})
      my == MinOf({c.y : c \in S})
  IN {XY(c.x - mx, c.y - my) : c \in S}

RECURSIVE Polyominoes(_)
\* every edge-connected set of n cells, up to translation (216 for n = 6)
Polyominoes(n) ==
  IF n = 1 THEN {{XY(0, 0)}}
  ELSE UNION {{Normalise(S \cup {c}) : c \in (UNION {Neighbours(b) : b \in S}) \ S} :
                S \in Polyominoes(n - 1)}

Hexominoes == Polyominoes(NUM_FACES)

RECURSIVE CellSeq(_)
\* the cells of S in row-major order
CellSeq(S) ==
  IF S = {} THEN <<>>
  ELSE LET first == CHOOSE c \in S :
                      \A d \in S : c.y < d.y \/ (c.y = d.y /\ c.x <= d.x)
       IN <<first>> \o CellSeq(S \ {first})

\* the list started at position k + 1 and wrapped around
Rotate(seq, k) ==
  [i \in 1..Len(seq) |-> seq[((i - 1 + k) % Len(seq)) + 1]]

\* FaceData records for a list of cells; ids in list order (App.tsx) or in reverse
MkFaces(cells, reverseIds) ==
  [i \in 1..Len(cells) |->
     [id |-> IF reverseIds THEN Len(cells) - i ELSE i - 1,
      x |-> cells[i].x, y |-> cells[i].y]]

\* A: every hexomino, translated, listed from each of its cells, both id assignments
HexominoInputs ==
  {MkFaces(Rotate(CellSeq({XY(c.x + tx, c.y + ty) : c \in S}), k), rev) :
     S \in Hexominoes, tx \in 0..MaxShift, ty \in 0..MaxShift,
     k \in 0..(NUM_FACES - 1), rev \in BOOLEAN}

GridCells == {XY(a, b) : a \in 0..(GRID_SIZE - 1), b \in 0..(GRID_SIZE - 1)}

\* B: a preset with one face moved to any cell of the grid (a free cell, another
\* face's cell, or a cell away from the rest)
MovedPresetInputs ==
  {[MkFaces(PRESETS[p], FALSE) EXCEPT ![i].x = c.x, ![i].y = c.y] :
     p \in DOMAIN PRESETS, i \in 1..NUM_FACES, c \in GridCells}

SmallCells == {XY(a, b) : a \in 0..(SmallGrid - 1), b \in 0..(SmallGrid - 1)}

\* C: every list of at most MaxSmallLen faces on the small board
SmallInputs ==
  UNION {{MkFaces(cs, FALSE) : cs \in [1..n -> SmallCells]} : n \in 0..MaxSmallLen}

\* D: lists of other lengths made from the presets: prefixes, one face removed,
\* a seventh face added
OtherLengthInputs ==
  LET base(p) == MkFaces(PRESETS[p], FALSE)
  IN {SubSeq(base(p), 1, n) : p \in DOMAIN PRESETS, n \in 0..(NUM_FACES - 1)}
     \cup {SubSeq(base(p), 1, i - 1) \o SubSeq(base(p), i + 1, NUM_FACES) :
             p \in DOMAIN PRESETS, i \in 1..NUM_FACES}
     \cup {Append(base(p), [id |-> NUM_FACES, x |-> c.x, y |-> c.y]) :
             p \in DOMAIN PRESETS, c \in SmallCells}

Inputs == HexominoInputs \cup MovedPresetInputs \cup SmallInputs \cup OtherLengthInputs

(***************************************************************************)
(* The calls.  faces is the snapshot handed to the core; call names the    *)
(* function applied to it and connectedRet, statusRet, treeRet and         *)
(* adjacencyRet hold what isConnected, checkGeometricValidity,             *)
(* buildFoldTree and calculateAdjacency returned; during                   *)
(* calculateAdjacency treeRet is the tree it got from buildFoldTree.       *)
(***************************************************************************)
\* useState<number | null>(null): no face selected
NO_SELECTION == -1

\* the App before its first render: validity = { isValid: true, message: '' },
\* nothing selected, no memo computed, no effect run
AppStart ==
  [phase |-> "render",
   validity |-> [isValid |-> TRUE, message |-> ""],
   selectedId |-> NO_SELECTION,
   foldTree |-> Null,
   adjacencyMap |-> EmptyMap,
   memoFresh |-> FALSE,
   memoValid |-> TRUE,
   effectFresh |-> FALSE,
   resolverRan |-> FALSE,
   events |-> 0]

\* no fold simulation in progress
\* the picture of a canvas filled with '#ffffff'; pictures are numbered
WHITE == 0

\* the picture of a canvas filled with the drawing color; every picture that
\* drawing lines produces gets the next number after it
SOLID == 1

\* historyRef.current.length > 20
HISTORY_LIMIT == 20

\* operations that paint on the canvas of the face (pointer moves of a stroke,
\* fill, hatch, clear) in one run
MaxPaintOps == 2

\* the canvas of one face after the Init Canvas effect: filled white, the history
\* holds this picture, no stroke in progress
PaintStart ==
  [canvas |-> WHITE, history |-> <<WHITE>>, isDrawing |-> FALSE, ops |-> 0]

NoFold == [queue |-> <<>>, visited |-> {}, uniqueNormals |-> {}, collision |-> FALSE]

NoResult ==
  /\ connectedRet = FALSE
  /\ statusRet = Null
  /\ treeRet = Null
  /\ adjacencyRet = EmptyMap

Init ==
  /\ faces \in Inputs
  /\ call = "none"
  /\ NoResult
  /\ fold = NoFold
  /\ app = AppStart
  /\ paint = PaintStart

CallIsConnected ==
  /\ call = "none"
  /\ call' = "isConnected"
  /\ connectedRet' = isConnected(faces)
  /\ UNCHANGED <<faces, statusRet, treeRet, adjacencyRet, fold, app, paint>>

CallCheckGeometricValidity ==
  /\ call = "none"
  /\ call' = "checkGeometricValidity"
  /\ statusRet' = checkGeometricValidity(faces)
  /\ UNCHANGED <<faces, connectedRet, treeRet, adjacencyRet, fold, app, paint>>

CallBuildFoldTree ==
  /\ call = "none"
  /\ call' = "buildFoldTree"
  /\ treeRet' \in buildFoldTree(faces)
  /\ UNCHANGED <<faces, connectedRet, statusRet, adjacencyRet, fold, app, paint>>

CallCalculateAdjacency ==
  /\ call = "none"
  /\ call' = "calculateAdjacency"
  /\ \E r \in calculateAdjacency(faces) :
       /\ treeRet' = r.tree
       /\ adjacencyRet' = r.map
  /\ UNCHANGED <<faces, connectedRet, statusRet, fold, app, paint>>

\* the caller takes the value; the core keeps nothing
Return ==
  /\ call \notin {"none", "fold"}
  /\ call' = "none"
  /\ connectedRet' = FALSE
  /\ statusRet' = Null
  /\ treeRet' = Null
  /\ adjacencyRet' = EmptyMap
  /\ UNCHANGED <<faces, fold, app, paint>>

Next ==
  \/ CallIsConnected
  \/ CallCheckGeometricValidity
  \/ CallBuildFoldTree
  \/ CallCalculateAdjacency
  \/ Return

Spec == Init /\ [][Next]_vars

\* the three functions that work on the flat net only
NextPlanar ==
  \/ CallIsConnected
  \/ CallCheckGeometricValidity
  \/ CallBuildFoldTree
  \/ Return

SpecPlanar == Init /\ [][NextPlanar]_vars

(***************************************************************************)
(* checkGeometricValidity step by step: fold is the queue, visited,        *)
(* uniqueNormals and whether the collision return was taken; one step      *)
(* takes one entry from the queue and runs the for loop over DIRS.         *)
(***************************************************************************)
\* the two early returns
CheckReject ==
  /\ call = "none"
  /\ Len(faces) # NUM_FACES \/ ~isConnected(faces)
  /\ call' = "checkGeometricValidity"
  /\ statusRet' = checkGeometricValidity(faces)
  /\ UNCHANGED <<faces, connectedRet, treeRet, adjacencyRet, fold, app, paint>>

\* root, queue, visited, uniqueNormals, idMap set up
CheckStart ==
  /\ call = "none"
  /\ Len(faces) = NUM_FACES /\ isConnected(faces)
  /\ call' = "fold"
  /\ fold' = FoldStart(faces)
  /\ UNCHANGED <<faces, connectedRet, statusRet, treeRet, adjacencyRet, app, paint>>

\* one turn of the while loop
CheckDequeue ==
  /\ call = "fold"
  /\ ~fold.collision /\ fold.queue # <<>>
  /\ fold' = checkDirs(faces, Head(fold.queue), 1, [fold EXCEPT !.queue = Tail(@)])
  /\ UNCHANGED <<faces, call, connectedRet, statusRet, treeRet, adjacencyRet, app, paint>>

\* the return on a collision, or after the loop
CheckFinish ==
  /\ call = "fold"
  /\ fold.collision \/ fold.queue = <<>>
  /\ call' = "checkGeometricValidity"
  /\ statusRet' = FoldResult(fold)
  /\ fold' = NoFold
  /\ UNCHANGED <<faces, connectedRet, treeRet, adjacencyRet, app, paint>>

NextFold ==
  \/ CheckReject
  \/ CheckStart
  \/ CheckDequeue
  \/ CheckFinish
  \/ Return

SpecFold == Init /\ [][NextFold]_vars

(***************************************************************************)
(* The App: faces, validity and selectedId are React state; foldTree and   *)
(* adjacencyMap are the value of the useMemo with dependencies             *)
(* [faces, validity.isValid]; the useEffect with dependency [faces] writes *)
(* validity after the render.  app.phase is "render" when a state change   *)
(* waits for its render, "effect" when a render has been committed and the *)
(* effect has not run yet, "idle" otherwise.  setFaces installs a new      *)
(* array, so it makes the memo and the effect stale whatever the cells.    *)
(***************************************************************************)
\* user events taken (preset loads, drops, ghost-slot clicks)
MaxEvents == 1

initialFaces ==
  << [id |-> 0, x |-> 2, y |-> 3], [id |-> 1, x |-> 2, y |-> 2], [id |-> 2, x |-> 2, y |-> 1],
     [id |-> 3, x |-> 1, y |-> 2], [id |-> 4, x |-> 3, y |-> 2], [id |-> 5, x |-> 2, y |-> 4] >>

InitApp ==
  /\ faces = initialFaces
  /\ call = "none"
  /\ NoResult
  /\ fold = NoFold
  /\ app = AppStart
  /\ paint = PaintStart

\* the useMemo with [faces] as its only dependency
Render_FacesDepOnly ==
  /\ app.phase = "render"
  /\ IF app.memoFresh
     THEN app' = [app EXCEPT !.resolverRan = FALSE,
                             !.phase = IF app.effectFresh THEN "idle" ELSE "effect"]
     ELSE \E tree \in buildFoldTree(faces) :
            \E adj \in IF app.validity.isValid
                       THEN {r.map : r \in {q \in calculateAdjacency(faces) :
                                                  q.tree \in {Null, tree}}}
                       ELSE {EmptyMap} :
              app' = [app EXCEPT !.foldTree = tree,
                                 !.adjacencyMap = adj,
                                 !.memoFresh = TRUE,
                                 !.memoValid = app.validity.isValid,
                                 !.resolverRan = app.validity.isValid,
                                 !.phase = IF app.effectFresh THEN "idle" ELSE "effect"]
  /\ UNCHANGED <<faces, call, connectedRet, statusRet, treeRet, adjacencyRet, fold, paint>>

\* the function component runs: the useMemo callback is called when one of its
\* dependencies changed, and the effect is scheduled when faces changed
Render ==
  /\ app.phase = "render"
  /\ IF app.memoFresh /\ app.memoValid = app.validity.isValid
     THEN app' = [app EXCEPT !.resolverRan = FALSE,
                             !.phase = IF app.effectFresh THEN "idle" ELSE "effect"]
     ELSE \E tree \in buildFoldTree(faces) :
            \E adj \in IF app.validity.isValid
                       THEN {r.map : r \in {q \in calculateAdjacency(faces) :
                                                  q.tree \in {Null, tree}}}
                       ELSE {EmptyMap} :
              app' = [app EXCEPT !.foldTree = tree,
                                 !.adjacencyMap = adj,
                                 !.memoFresh = TRUE,
                                 !.memoValid = app.validity.isValid,
                                 !.resolverRan = app.validity.isValid,
                                 !.phase = IF app.effectFresh THEN "idle" ELSE "effect"]
  /\ UNCHANGED <<faces, call, connectedRet, statusRet, treeRet, adjacencyRet, fold, paint>>

\* useEffect(() => setValidity(checkGeometricValidity(faces)), [faces]): the new
\* status object is a state change, so another render follows
Effect ==
  /\ app.phase = "effect"
  /\ app' = [app EXCEPT !.validity = checkGeometricValidity(faces),
                        !.effectFresh = TRUE,
                        !.phase = "render"]
  /\ UNCHANGED <<faces, call, connectedRet, statusRet, treeRet, adjacencyRet, fold, paint>>

\* what setFaces does to the App
FacesSet ==
  [app EXCEPT !.memoFresh = FALSE, !.effectFresh = FALSE, !.phase = "render",
              !.events = @ + 1]

\* loadPreset(key): the coordinates of the preset given to the faces by position
LoadPreset ==
  /\ app.phase = "idle" /\ app.events < MaxEvents
  /\ \E key \in DOMAIN PRESETS :
       faces' = [i \in 1..Len(faces) |->
                   [faces[i] EXCEPT !.x = PRESETS[key][i].x, !.y = PRESETS[key][i].y]]
  /\ app' = FacesSet
  /\ UNCHANGED <<call, connectedRet, statusRet, treeRet, adjacencyRet, fold, paint>>

\* onSelect = setSelectedId: a face is clicked
SelectFace ==
  /\ app.phase = "idle"
  /\ \E id \in FaceIdsOf(faces) :
       /\ id # app.selectedId
       /\ app' = [app EXCEPT !.selectedId = id, !.phase = "render"]
  /\ UNCHANGED <<faces, call, connectedRet, statusRet, treeRet, adjacencyRet, fold, paint>>

\* faces.map(f => f.id === id ? { ...f, x, y } : f)
MoveFace(fs, id, c) ==
  [i \in 1..Len(fs) |-> IF fs[i].id = id THEN [fs[i] EXCEPT !.x = c.x, !.y = c.y] ELSE fs[i]]

\* onFaceMove without the test for a face on the target cell
onFaceMove_NoOccupiedCheck(fs, id, newX, newY) ==
  IF newX < 0 \/ newX >= GRID_SIZE \/ newY < 0 \/ newY >= GRID_SIZE
  THEN [ret |-> FALSE, faces |-> fs]
  ELSE [ret |-> TRUE, faces |-> MoveFace(fs, id, XY(newX, newY))]

\* onFaceMove(id, newX, newY): the value returned and the faces afterwards; a drop
\* outside the grid or on a cell that another face is on returns false before
\* setFaces
onFaceMove(fs, id, newX, newY) ==
  IF newX < 0 \/ newX >= GRID_SIZE \/ newY < 0 \/ newY >= GRID_SIZE
  THEN [ret |-> FALSE, faces |-> fs]
  ELSE IF \E k \in 1..Len(fs) : fs[k].id # id /\ fs[k].x = newX /\ fs[k].y = newY
       THEN [ret |-> FALSE, faces |-> fs]
       ELSE [ret |-> TRUE, faces |-> MoveFace(fs, id, XY(newX, newY))]

\* a face is dropped (handlePointerUp calls onMoveFace with the cell under its
\* centre); only an accepted drop calls setFaces
OnFaceMove ==
  /\ app.phase = "idle" /\ app.events < MaxEvents
  /\ \E id \in FaceIdsOf(faces) :
       \E newX \in -1..GRID_SIZE, newY \in -1..GRID_SIZE :
         LET r == onFaceMove(faces, id, newX, newY)
         IN /\ faces' = r.faces
            /\ app' = IF r.ret THEN FacesSet ELSE app
  /\ UNCHANGED <<call, connectedRet, statusRet, treeRet, adjacencyRet, fold, paint>>

\* moveTargets: the free cells of the grid next to a face other than the selected one
moveTargets(fs, selectedId) ==
  IF selectedId = NO_SELECTION THEN {}
  ELSE LET remaining == {fs[k] : k \in {j \in 1..Len(fs) : fs[j].id # selectedId}}
           occupied == {XY(f.x, f.y) : f \in remaining}
       IN {c \in UNION {{XY(f.x + d[1], f.y + d[2]) :
                           d \in {<<0, 1>>, <<0, -1>>, <<1, 0>>, <<-1, 0>>}} : f \in remaining} :
             /\ c.x >= 0 /\ c.x < GRID_SIZE /\ c.y >= 0 /\ c.y < GRID_SIZE
             /\ c \notin occupied}

\* handleGhostClick(x, y) on one of the ghost slots shown
HandleGhostClick ==
  /\ app.phase = "idle" /\ app.events < MaxEvents
  /\ app.selectedId # NO_SELECTION
  /\ \E c \in moveTargets(faces, app.selectedId) :
       faces' = MoveFace(faces, app.selectedId, c)
  /\ app' = FacesSet
  /\ UNCHANGED <<call, connectedRet, statusRet, treeRet, adjacencyRet, fold, paint>>

\* applyLabels with the two labels of the left side the other way round
applyLabels_LeftSwapped(side, startLabel, endLabel, labels) ==
  CASE side = "top"    -> (0 :> startLabel) @@ (1 :> endLabel) @@ labels
    [] side = "right"  -> (1 :> startLabel) @@ (2 :> endLabel) @@ labels
    [] side = "bottom" -> (2 :> startLabel) @@ (3 :> endLabel) @@ labels
    [] side = "left"   -> (0 :> startLabel) @@ (3 :> endLabel) @@ labels

\* applyLabels(side, startLabel, endLabel, labels): labels after the two writes
applyLabels(side, startLabel, endLabel, labels) ==
  CASE side = "top"    -> (0 :> startLabel) @@ (1 :> endLabel) @@ labels
    [] side = "right"  -> (1 :> startLabel) @@ (2 :> endLabel) @@ labels
    [] side = "bottom" -> (2 :> startLabel) @@ (3 :> endLabel) @@ labels
    [] side = "left"   -> (3 :> startLabel) @@ (0 :> endLabel) @@ labels

\* the four tests of getVertexLabels in their order: the side of the selected
\* face and the labels of its two corners
LABEL_SIDES ==
  << [side |-> "top",    l1 |-> "a", l2 |-> "b"],
     [side |-> "right",  l1 |-> "b", l2 |-> "c"],
     [side |-> "bottom", l1 |-> "c", l2 |-> "d"],
     [side |-> "left",   l1 |-> "d", l2 |-> "a"] >>

\* the calls of applyLabels made by getVertexLabels(faceId), in order, each as
\* [side, startLabel, endLabel]
labelCalls(adjacencyMap, selectedId, faceId) ==
  LET selectedAdj == adjacencyMap[selectedId]
      touches(k) == /\ LABEL_SIDES[k].side \in DOMAIN selectedAdj
                    /\ selectedAdj[LABEL_SIDES[k].side].targetFaceId = faceId
      callOf(k) == LET conn == selectedAdj[LABEL_SIDES[k].side]
                   IN [side |-> conn.targetSide,
                       startLabel |-> IF conn.reversed THEN LABEL_SIDES[k].l2
                                      ELSE LABEL_SIDES[k].l1,
                       endLabel |-> IF conn.reversed THEN LABEL_SIDES[k].l1
                                    ELSE LABEL_SIDES[k].l2]
      F[k \in 0..Len(LABEL_SIDES)] ==
        IF k = 0 THEN << >>
        ELSE IF touches(k) THEN Append(F[k - 1], callOf(k)) ELSE F[k - 1]
  IN F[Len(LABEL_SIDES)]

\* no labels: what getVertexLabels returns as undefined
NoLabels == [k \in {} |-> ""]

\* getVertexLabels(faceId): corner index (0 = TL, 1 = TR, 2 = BR, 3 = BL) to label
getVertexLabels(adjacencyMap, selectedId, faceId) ==
  IF selectedId = NO_SELECTION THEN NoLabels
  ELSE IF faceId = selectedId THEN (0 :> "A") @@ (1 :> "B") @@ (2 :> "C") @@ (3 :> "D")
  ELSE IF selectedId \notin DOMAIN adjacencyMap THEN NoLabels
  ELSE LET calls == labelCalls(adjacencyMap, selectedId, faceId)
           L[k \in 0..Len(calls)] ==
             IF k = 0 THEN NoLabels
             ELSE applyLabels(calls[k].side, calls[k].startLabel, calls[k].endLabel, L[k - 1])
       IN L[Len(calls)]

\* no highlights: what getHighlights returns as undefined
NoHighlights == [k \in {} |-> 0]

\* getHighlights keeping the color of the neighbour's own side
getHighlights_OwnColor(adjacencyMap, selectedId, faceId) ==
  IF selectedId = NO_SELECTION THEN NoHighlights
  ELSE IF faceId \notin DOMAIN adjacencyMap THEN NoHighlights
  ELSE LET map == adjacencyMap[faceId]
       IN IF faceId = selectedId THEN map
          ELSE [side \in {t \in DOMAIN map : map[t].targetFaceId = selectedId} |-> map[side]]

\* getHighlights(faceId): the sides of the face to highlight, each with its
\* connection; a face other than the selected one keeps the sides that touch the
\* selected face and shows them in the color of the selected face's side
getHighlights(adjacencyMap, selectedId, faceId) ==
  IF selectedId = NO_SELECTION THEN NoHighlights
  ELSE IF faceId \notin DOMAIN adjacencyMap THEN NoHighlights
  ELSE LET map == adjacencyMap[faceId]
       IN IF faceId = selectedId THEN map
          ELSE [side \in {t \in DOMAIN map : map[t].targetFaceId = selectedId} |->
                  [map[side] EXCEPT !.color = SIDE_COLORS[map[side].targetSide]]]

\* null: no border color
NoColor == ""

\* CubeView getBorderColor(side) on the node of face nodeId
getBorderColor(adjacencyMap, selectedId, nodeId, side) ==
  IF nodeId \notin DOMAIN adjacencyMap THEN NoColor
  ELSE LET activeAdjacency == adjacencyMap[nodeId]
       IN IF side \notin DOMAIN activeAdjacency THEN NoColor
          ELSE LET conn == activeAdjacency[side]
               IN IF selectedId = nodeId THEN conn.color
                  ELSE IF conn.targetFaceId = selectedId THEN SIDE_COLORS[conn.targetSide]
                  ELSE NoColor

NextApp ==
  \/ Render
  \/ Effect
  \/ LoadPreset
  \/ SelectFace
  \/ HandleGhostClick
  \/ OnFaceMove

SpecApp == InitApp /\ [][NextApp]_vars

\* React runs every pending render and every scheduled effect: WF_vars(Render) and
\* WF_vars(Effect), written out as "infinitely often not enabled, or infinitely
\* often taken" with the enabling conditions app.phase = "render" and
\* app.phase = "effect" of the two actions (each of them changes app.phase)
SpecAppLive ==
  /\ SpecApp
  /\ ([]<>(app.phase # "render") \/ []<><<Render>>_vars)
  /\ ([]<>(app.phase # "effect") \/ []<><<Effect>>_vars)

(***************************************************************************)
(* DraggableFace: the canvas of the selected face and its undo history      *)
(***************************************************************************)
\* saveHistory without the limit on the size of the history
saveHistory_NoLimit(p) ==
  LET h0 == IF Len(p.history) = 0 THEN <<p.canvas>> ELSE p.history
  IN [p EXCEPT !.history = Append(h0, p.canvas)]

\* saveHistory(): the current picture is pushed, the oldest entry dropped first
\* when the history holds more than HISTORY_LIMIT entries
saveHistory(p) ==
  LET h0 == IF Len(p.history) = 0 THEN <<p.canvas>> ELSE p.history
      h1 == IF Len(h0) > HISTORY_LIMIT THEN Tail(h0) ELSE h0
  IN [p EXCEPT !.history = Append(h1, p.canvas)]

\* undo(): the last entry is popped and the new last entry painted
undo(p) ==
  IF Len(p.history) <= 1 THEN p
  ELSE LET h == SubSeq(p.history, 1, Len(p.history) - 1)
       IN [p EXCEPT !.history = h, !.canvas = h[Len(h)]]

\* lines drawn on the canvas leave a new picture; a fill leaves the picture pic
Painted(p) == [p EXCEPT !.canvas = SOLID + p.ops + 1, !.ops = p.ops + 1]

Filled(p, pic) == [p EXCEPT !.canvas = pic, !.ops = p.ops + 1]

\* startDrawing: pointer down on the face with a drawing tool
StartDrawing ==
  /\ ~paint.isDrawing
  /\ paint' = saveHistory([paint EXCEPT !.isDrawing = TRUE])
  /\ UNCHANGED <<faces, call, connectedRet, statusRet, treeRet, adjacencyRet, fold, app>>

\* draw: pointer move while drawing
Draw ==
  /\ paint.isDrawing
  /\ paint.ops < MaxPaintOps
  /\ paint' = Painted(paint)
  /\ UNCHANGED <<faces, call, connectedRet, statusRet, treeRet, adjacencyRet, fold, app>>

\* stopDrawing: pointer up
StopDrawing ==
  /\ paint.isDrawing
  /\ paint' = saveHistory([paint EXCEPT !.isDrawing = FALSE])
  /\ UNCHANGED <<faces, call, connectedRet, statusRet, treeRet, adjacencyRet, fold, app>>

\* handleUndo on the selected face
HandleUndo ==
  /\ paint' = undo(paint)
  /\ UNCHANGED <<faces, call, connectedRet, statusRet, treeRet, adjacencyRet, fold, app>>

\* handleClearCanvas: the canvas is filled white
HandleClearCanvas ==
  /\ ~paint.isDrawing
  /\ paint.ops < MaxPaintOps
  /\ paint' = Filled(paint, WHITE)
  /\ UNCHANGED <<faces, call, connectedRet, statusRet, treeRet, adjacencyRet, fold, app>>

\* handleFill: the canvas is filled with the drawing color
HandleFill ==
  /\ ~paint.isDrawing
  /\ paint.ops < MaxPaintOps
  /\ paint' = Filled(paint, SOLID)
  /\ UNCHANGED <<faces, call, connectedRet, statusRet, treeRet, adjacencyRet, fold, app>>

\* handleHatch: diagonal lines are drawn over the canvas
HandleHatch ==
  /\ ~paint.isDrawing
  /\ paint.ops < MaxPaintOps
  /\ paint' = Painted(paint)
  /\ UNCHANGED <<faces, call, connectedRet, statusRet, treeRet, adjacencyRet, fold, app>>

NextCanvas ==
  \/ StartDrawing
  \/ Draw
  \/ StopDrawing
  \/ HandleUndo
  \/ HandleClearCanvas
  \/ HandleFill
  \/ HandleHatch

SpecCanvas == InitApp /\ [][NextCanvas]_vars

(***************************************************************************)
(* Notions the properties are stated with, defined without the code        *)
(***************************************************************************)
Manhattan(f, g) == Abs(f.x - g.x) + Abs(f.y - g.y)

RECURSIVE ReachFrom(_, _)
\* the positions of fs reachable from the positions R by steps of Manhattan distance 1
ReachFrom(fs, R) ==
  LET N == R \cup {k \in 1..Len(fs) : \E r \in R : Manhattan(fs[k], fs[r]) = 1}
  IN IF N = R THEN R ELSE ReachFrom(fs, N)

AllReachableFromFirst(fs) == Len(fs) = 0 \/ ReachFrom(fs, {1}) = 1..Len(fs)

UniqueIds(fs) == \A i, j \in 1..Len(fs) : fs[i].id = fs[j].id => i = j

DistinctCells(fs) ==
  \A i, j \in 1..Len(fs) : (fs[i].x = fs[j].x /\ fs[i].y = fs[j].y) => i = j

CellsOf(fs) == {XY(fs[k].x, fs[k].y) : k \in 1..Len(fs)}

\* six faces on six distinct cells forming one edge-connected shape
IsHexominoLayout(fs) ==
  /\ Len(fs) = 6
  /\ DistinctCells(fs)
  /\ UniqueIds(fs)
  /\ AllReachableFromFirst(fs)

\* the 11 nets of the cube, one orientation each (rows top to bottom, columns left to right)
CubeNets ==
  { {XY(0,0), XY(0,1), XY(1,1), XY(2,1), XY(3,1), XY(0,2)},
    {XY(0,0), XY(0,1), XY(1,1), XY(2,1), XY(3,1), XY(1,2)},
    {XY(0,0), XY(0,1), XY(1,1), XY(2,1), XY(3,1), XY(2,2)},
    {XY(0,0), XY(0,1), XY(1,1), XY(2,1), XY(3,1), XY(3,2)},
    {XY(1,0), XY(0,1), XY(1,1), XY(2,1), XY(3,1), XY(1,2)},
    {XY(1,0), XY(0,1), XY(1,1), XY(2,1), XY(3,1), XY(2,2)},
    {XY(0,0), XY(1,0), XY(1,1), XY(2,1), XY(3,1), XY(1,2)},
    {XY(0,0), XY(1,0), XY(1,1), XY(2,1), XY(3,1), XY(2,2)},
    {XY(0,0), XY(1,0), XY(1,1), XY(2,1), XY(3,1), XY(3,2)},
    {XY(0,0), XY(1,0), XY(1,1), XY(2,1), XY(2,2), XY(3,2)},
    {XY(0,0), XY(1,0), XY(2,0), XY(2,1), XY(3,1), XY(4,1)} }

\* the 8 rotations and reflections of a set of cells, each moved to the origin corner
Orientations(S) ==
  { Normalise(S),
    Normalise({XY(-c.y, c.x) : c \in S}),
    Normalise({XY(-c.x, -c.y) : c \in S}),
    Normalise({XY(c.y, -c.x) : c \in S}),
    Normalise({XY(-c.x, c.y) : c \in S}),
    Normalise({XY(c.y, c.x) : c \in S}),
    Normalise({XY(c.x, -c.y) : c \in S}),
    Normalise({XY(-c.y, -c.x) : c \in S}) }

AllCubeNets == UNION {Orientations(S) : S \in CubeNets}

IsCubeNet(fs) ==
  /\ Len(fs) = 6
  /\ DistinctCells(fs)
  /\ UniqueIds(fs)
  /\ Normalise(CellsOf(fs)) \in AllCubeNets

HasOverlap(fs) ==
  \E i, j \in 1..Len(fs) : i # j /\ fs[i].x = fs[j].x /\ fs[i].y = fs[j].y

(***************************************************************************)
(* Properties                                                              *)
(***************************************************************************)
\* C1: every placement of six faces on six distinct cells whose shape is one of
\* the 11 cube nets (any rotation, reflection, translation, order and ids of the
\* list) is reported valid, with no message.
C1_CubeNetsAreValid ==
  (call = "checkGeometricValidity" /\ IsCubeNet(faces)) => statusRet = [isValid |-> TRUE]

\* a reflected or rotated net, not listed in id order, has been checked
C1_Witness ==
  /\ call = "checkGeometricValidity"
  /\ IsCubeNet(faces)
  /\ Normalise(CellsOf(faces)) \notin CubeNets
  /\ faces[1].id # 0
  /\ faces[1].x > 0
  /\ statusRet.isValid

\* C2: every edge-connected placement of six faces on distinct cells that is not
\* a cube net is rejected with the folding-collision message.
C2_NonNetsCollide ==
  (call = "checkGeometricValidity" /\ IsHexominoLayout(faces) /\ ~IsCubeNet(faces))
    => statusRet = [isValid |-> FALSE, message |-> MSG_OVERLAP]

\* the solid 3x2 rectangle and the 1x6 strip have been checked
C2_Witness ==
  /\ call = "checkGeometricValidity"
  /\ Normalise(CellsOf(faces)) \in
       { {XY(0,0), XY(1,0), XY(2,0), XY(0,1), XY(1,1), XY(2,1)},
         {XY(0,0), XY(0,1), XY(0,2), XY(0,3), XY(0,4), XY(0,5)} }
  /\ IsHexominoLayout(faces)
  /\ statusRet.message = MSG_OVERLAP

\* C3: a 6-face input with two faces on the same cell is never reported valid.
C3_OverlapRejected ==
  (call = "checkGeometricValidity" /\ Len(faces) = 6 /\ HasOverlap(faces))
    => statusRet.isValid = FALSE

\* C4: a list whose length is not 6 is rejected with the count message, whatever
\* its positions and connectivity.
C4_CountFirst ==
  (call = "checkGeometricValidity" /\ Len(faces) # 6)
    => statusRet = [isValid |-> FALSE, message |-> MSG_COUNT]

\* a disconnected list of the wrong length has been rejected for its length
C4_Witness ==
  /\ call = "checkGeometricValidity"
  /\ Len(faces) \notin {0, 6}
  /\ ~AllReachableFromFirst(faces)
  /\ statusRet.message = MSG_COUNT

\* C5: a 6-face input for which isConnected is false is rejected with the
\* connectivity message, never with the collision message.
C5_DisconnectedMessage ==
  (call = "checkGeometricValidity" /\ Len(faces) = 6 /\ ~isConnected(faces))
    => statusRet = [isValid |-> FALSE, message |-> MSG_CONNECT]

\* a 6-face layout with a face away from the others has been checked
C5_Witness ==
  /\ call = "checkGeometricValidity"
  /\ Len(faces) = 6
  /\ DistinctCells(faces)
  /\ ~AllReachableFromFirst(faces)
  /\ statusRet.message = MSG_CONNECT

\* C6: with unique ids, isConnected is true exactly when every face is reachable
\* from faces[0] by steps between faces at Manhattan distance exactly 1; true for
\* the empty list and a single face, false for two faces alone on one cell.
C6_ConnectedIffReachable ==
  (call = "isConnected" /\ UniqueIds(faces)) =>
    /\ connectedRet = AllReachableFromFirst(faces)
    /\ Len(faces) <= 1 => connectedRet = TRUE
    /\ (Len(faces) = 2 /\ HasOverlap(faces)) => connectedRet = FALSE

\* two faces alone on one cell have been found not connected
C6_Witness ==
  /\ call = "isConnected"
  /\ Len(faces) = 2
  /\ HasOverlap(faces)
  /\ connectedRet = FALSE

\* the grid offset child - parent that each direction name stands for
Offset(direction) ==
  CASE direction = "top"    -> XY(0, -1)
    [] direction = "bottom" -> XY(0, 1)
    [] direction = "left"   -> XY(-1, 0)
    [] direction = "right"  -> XY(1, 0)

Refs(tree) == 1..Len(tree.nodes)

ChildRefs(tree, r) == {tree.nodes[r].children[k] : k \in DOMAIN tree.nodes[r].children}

\* the occurrences of node c in children lists, as <<parent, position>>
Occurrences(tree, c) ==
  {<<p, k>> \in Refs(tree) \X (1..Len(tree.nodes)) :
     k \in DOMAIN tree.nodes[p].children /\ tree.nodes[p].children[k] = c}

RECURSIVE Descendants(_, _)
\* the nodes reachable from the nodes R along children
Descendants(tree, R) ==
  LET N == R \cup UNION {ChildRefs(tree, r) : r \in R}
  IN IF N = R THEN R ELSE Descendants(tree, N)

FaceOfId(fs, id) == CHOOSE f \in {fs[k] : k \in 1..Len(fs)} : f.id = id

\* C7: for six edge-connected faces on distinct cells the tree has exactly 6 nodes,
\* every face id on exactly one node, one root marked "root" with the five others
\* below it, each of them listed once as a child, and its directionFromParent is
\* the grid offset child - parent (top (0,-1), bottom (0,1), left (-1,0), right (1,0)).
C7_TreeSpansSixFaces ==
  (call = "buildFoldTree" /\ IsHexominoLayout(faces)) =>
    /\ treeRet # Null
    /\ Len(treeRet.nodes) = 6
    /\ \A k \in 1..Len(faces) :
         Cardinality({r \in Refs(treeRet) : treeRet.nodes[r].id = faces[k].id}) = 1
    /\ {r \in Refs(treeRet) : treeRet.nodes[r].directionFromParent = "root"} = {treeRet.root}
    /\ Descendants(treeRet, {treeRet.root}) = Refs(treeRet)
    /\ \A c \in Refs(treeRet) \ {treeRet.root} :
         /\ Cardinality(Occurrences(treeRet, c)) = 1
         /\ \A o \in Occurrences(treeRet, c) :
              LET child == FaceOfId(faces, treeRet.nodes[c].id)
                  parent == FaceOfId(faces, treeRet.nodes[o[1]].id)
              IN XY(child.x - parent.x, child.y - parent.y)
                   = Offset(treeRet.nodes[c].directionFromParent)

\* a tree with a node two hinges below the root, in each of the four directions
C7_Witness ==
  /\ call = "buildFoldTree"
  /\ IsHexominoLayout(faces)
  /\ \E r \in Refs(treeRet) : treeRet.nodes[r].depth >= 3
  /\ {treeRet.nodes[r].directionFromParent : r \in Refs(treeRet)} = {"root", "top", "bottom", "left", "right"}

FaceIds(fs) == {fs[k].id : k \in 1..Len(fs)}

\* C8: for every input that checkGeometricValidity accepts, the map has an entry
\* for each of the six face ids and each entry has all four sides.
C8_AllSidesMatched ==
  (call = "calculateAdjacency" /\ checkGeometricValidity(faces).isValid) =>
    /\ DOMAIN adjacencyRet = FaceIds(faces)
    /\ \A id \in DOMAIN adjacencyRet : DOMAIN adjacencyRet[id] = EdgeSide

\* C9: on every valid net the map is symmetric: if side S of A is matched to side T
\* of B with reversed = r, then side T of B is matched to side S of A with the same r.
C9_SymmetricOnValidNets ==
  (call = "calculateAdjacency" /\ checkGeometricValidity(faces).isValid) =>
    \A a \in DOMAIN adjacencyRet : \A s \in DOMAIN adjacencyRet[a] :
      LET c == adjacencyRet[a][s]
      IN /\ c.targetFaceId \in DOMAIN adjacencyRet
         /\ c.targetSide \in DOMAIN adjacencyRet[c.targetFaceId]
         /\ adjacencyRet[c.targetFaceId][c.targetSide].targetFaceId = a
         /\ adjacencyRet[c.targetFaceId][c.targetSide].targetSide = s
         /\ adjacencyRet[c.targetFaceId][c.targetSide].reversed = c.reversed

\* the map of a valid net, with a connection between two faces that are not
\* neighbours on the grid
C9_Witness ==
  /\ call = "calculateAdjacency"
  /\ checkGeometricValidity(faces).isValid
  /\ \E a \in DOMAIN adjacencyRet : \E s \in DOMAIN adjacencyRet[a] :
       Manhattan(FaceOfId(faces, a), FaceOfId(faces, adjacencyRet[a][s].targetFaceId)) > 1

\* the coincident side pairs of a map: {<<A, S>>, <<B, T>>} with map[A][S] = (B, T)
SidePairs(map) ==
  {{<<a, s>>, <<map[a][s].targetFaceId, map[a][s].targetSide>>} :
     <<a, s>> \in {<<b, t>> \in (DOMAIN map) \X EdgeSide : t \in DOMAIN map[b]}}

\* the hinges of a tree, as pairs of face ids {parent, child}
HingePairs(tree) ==
  {{tree.nodes[p].id, tree.nodes[c].id} :
     <<p, c>> \in {<<q, d>> \in Refs(tree) \X Refs(tree) : d \in ChildRefs(tree, q)}}

\* the pairs whose two faces are not parent and child in the fold tree
ClosingPairs(tree, map) ==
  {pr \in SidePairs(map) : {e[1] : e \in pr} \notin HingePairs(tree)}

\* C10 as stated: on every valid net exactly 3 coincident side pairs are closing edges.
C10_ThreeClosingPairs ==
  (call = "calculateAdjacency" /\ checkGeometricValidity(faces).isValid) =>
    Cardinality(ClosingPairs(treeRet, adjacencyRet)) = 3

\* C10 amended: on every valid net of six faces on distinct cells exactly 7
\* coincident side pairs are closing edges (the 12 edges of the cube less the 5
\* hinges); an accepted layout with two faces on one cell has 4.
C10_SevenClosingPairs ==
  (call = "calculateAdjacency" /\ checkGeometricValidity(faces).isValid) =>
    Cardinality(ClosingPairs(treeRet, adjacencyRet)) = IF DistinctCells(faces) THEN 7 ELSE 4

\* the closing edges of a valid net on distinct cells have been counted
C10_Witness ==
  /\ call = "calculateAdjacency"
  /\ checkGeometricValidity(faces).isValid
  /\ DistinctCells(faces)
  /\ Cardinality(SidePairs(adjacencyRet)) = 12
  /\ Cardinality(ClosingPairs(treeRet, adjacencyRet)) = 7

\* the position of the first face of the list among those nearest to the centroid
FirstNearest(fs) ==
  CHOOSE k \in 1..Len(fs) :
    /\ \A j \in 1..Len(fs) : Dist2(fs, fs[k]) <= Dist2(fs, fs[j])
    /\ \A j \in 1..(k - 1) : Dist2(fs, fs[k]) < Dist2(fs, fs[j])

\* C11: the root of the tree is the face at the least squared distance to the
\* centroid of the input faces, and of several such faces the first of the list.
C11_RootIsFirstNearest ==
  (call = "buildFoldTree" /\ Len(faces) > 0) =>
    treeRet.nodes[treeRet.root].id = faces[FirstNearest(faces)].id

\* the root is a face at the least distance (whichever of them the scan ends on)
C11_RootIsNearest ==
  (call = "buildFoldTree" /\ Len(faces) > 0) =>
    \A k \in 1..Len(faces) :
      Dist2(faces, FaceOfId(faces, treeRet.nodes[treeRet.root].id)) <= Dist2(faces, faces[k])

TreeIds(tree) == {tree.nodes[r].id : r \in Refs(tree)}

\* the positions of the faces with the id of the root node
RootPositions(fs, tree) == {k \in 1..Len(fs) : fs[k].id = tree.nodes[tree.root].id}

\* C12: buildFoldTree returns null for the empty list only, and for a non-empty
\* list of faces on distinct cells, edge-connected or not, the ids on the nodes of
\* the tree are exactly the ids of the faces reachable from the root face by
\* steps between cells at Manhattan distance 1.
C12_TreeIsRootComponent ==
  (call = "buildFoldTree") =>
    /\ (treeRet = Null) <=> (Len(faces) = 0)
    /\ (Len(faces) > 0 /\ DistinctCells(faces)) =>
         TreeIds(treeRet) = {faces[k].id : k \in ReachFrom(faces, RootPositions(faces, treeRet))}

\* a tree over a part of a list that is not edge-connected, two hinges deep
C12_Witness ==
  /\ call = "buildFoldTree"
  /\ DistinctCells(faces)
  /\ ~AllReachableFromFirst(faces)
  /\ treeRet # Null
  /\ Cardinality(TreeIds(treeRet)) < Len(faces)
  /\ \E r \in Refs(treeRet) : treeRet.nodes[r].depth >= 2

\* C13: calculateAdjacency returns the empty map, with no face key at all, for
\* every input that does not have exactly 6 faces or is not edge-connected.
C13_EmptyMapOnDegenerate ==
  (call = "calculateAdjacency" /\ (Len(faces) # 6 \/ ~AllReachableFromFirst(faces))) =>
    /\ adjacencyRet = EmptyMap
    /\ DOMAIN adjacencyRet = {}

\* six faces on distinct cells in two parts of three faces or more
C13_Witness ==
  /\ call = "calculateAdjacency"
  /\ Len(faces) = 6
  /\ DistinctCells(faces)
  /\ Cardinality(ReachFrom(faces, {1})) \in {3, 4}
  /\ adjacencyRet = EmptyMap

\* the list fs in the order p: position i holds fs[p[i]]
Permuted(fs, p) == [i \in 1..Len(fs) |-> fs[p[i]]]

\* the lists whose every permutation is tried: the presets with one face moved,
\* every hexomino in row-major order, the short lists and the lists of 5 and 7
PermutedInputs ==
  MovedPresetInputs \cup SmallInputs \cup OtherLengthInputs
    \cup {MkFaces(CellSeq(S), FALSE) : S \in Hexominoes}

\* C14: the verdict of checkGeometricValidity (isValid and the message) is the
\* same for every permutation of the input list.
C14_VerdictIgnoresOrder ==
  (call = "checkGeometricValidity" /\ faces \in PermutedInputs) =>
    \A p \in Permutations(1..Len(faces)) :
      checkGeometricValidity(Permuted(faces, p)) = statusRet

\* a hexomino that is not a net and a permutation of it that starts the fold
\* from another face, with the same verdict
C14_Witness ==
  /\ call = "checkGeometricValidity"
  /\ faces \in PermutedInputs
  /\ IsHexominoLayout(faces)
  /\ statusRet = [isValid |-> FALSE, message |-> MSG_OVERLAP]
  /\ \E p \in Permutations(1..Len(faces)) :
       /\ p[1] # 1
       /\ checkGeometricValidity(Permuted(faces, p)) = statusRet

AxisUnits ==
  {<<1, 0, 0>>, <<-1, 0, 0>>, <<0, 1, 0>>, <<0, -1, 0>>, <<0, 0, 1>>, <<0, 0, -1>>}

Cross(a, b) ==
  << a[2] * b[3] - a[3] * b[2], a[3] * b[1] - a[1] * b[3], a[1] * b[2] - a[2] * b[1] >>

\* C15: at every point of the fold simulation, every entry on the queue has a
\* normal that is one of the six axis-aligned unit vectors, an up vector that is
\* an axis-aligned unit vector perpendicular to the normal, and up x normal is an
\* axis-aligned unit vector too.
C15_QueuedFramesOrthonormal ==
  \A k \in DOMAIN fold.queue :
    /\ fold.queue[k].normal \in AxisUnits
    /\ fold.queue[k].up \in AxisUnits
    /\ Dot(fold.queue[k].normal, fold.queue[k].up) = 0
    /\ Cross(fold.queue[k].up, fold.queue[k].normal) \in AxisUnits

\* the face opposite the start face is on the queue, with three other faces
\* already taken from it
C15_Witness ==
  /\ call = "fold"
  /\ \E k \in DOMAIN fold.queue : fold.queue[k].normal = <<0, 0, -1>>
  /\ Cardinality(fold.visited) - Len(fold.queue) >= 3

\* the step-by-step run returns what checkGeometricValidity(faces) is
StepsAgree ==
  (call = "checkGeometricValidity") => statusRet = checkGeometricValidity(faces)

\* the node that lists c as a child
ParentOf(tree, c) == CHOOSE p \in Refs(tree) : c \in ChildRefs(tree, p)

RECURSIVE GlobalMatrix(_, _)
\* globalMatrix in the call of traverse on node r: the local matrices of the
\* path from the root multiplied in order
GlobalMatrix(tree, r) ==
  IF r = tree.root THEN multiply(Identity4, LocalMatrix(tree.nodes[r].directionFromParent))
  ELSE multiply(GlobalMatrix(tree, ParentOf(tree, r)),
                LocalMatrix(tree.nodes[r].directionFromParent))

RECURSIVE FoldFrame(_, _)
\* the direction rules of the validator applied along the path from the root to r,
\* from normal (0,0,1) and up (0,1,0)
FoldFrame(tree, r) ==
  IF r = tree.root THEN [normal |-> <<0, 0, 1>>, up |-> <<0, 1, 0>>]
  ELSE LET f == FoldFrame(tree, ParentOf(tree, r))
       IN FoldStep(tree.nodes[r].directionFromParent, f.normal, f.up)

\* C16: for every edge-connected layout of six faces on distinct cells and every
\* node of its fold tree, the validator's rules applied along the path from the
\* root give the images of (0,0,1) and (0,1,0) under the rotation part of the
\* matrix that calculateAdjacency accumulates for the node (the matrix its
\* corners are computed with).
C16_RulesMatchRotations ==
  (call = "calculateAdjacency" /\ IsHexominoLayout(faces)) =>
    LET faceCorners == traverse(treeRet, treeRet.root, Identity4)
    IN \A r \in Refs(treeRet) :
         LET m == GlobalMatrix(treeRet, r)
         IN /\ \E k \in DOMAIN faceCorners :
                 /\ faceCorners[k].id = treeRet.nodes[r].id
                 /\ \A c \in DOMAIN CORNERS :
                      faceCorners[k].corners[c] = applyMatrix4(CORNERS[c], m)
            /\ FoldFrame(treeRet, r).normal = Col(m.R, 3)
            /\ FoldFrame(treeRet, r).up = Col(m.R, 2)

\* a tree with a node three hinges below the root whose path turns: the up
\* vector of its frame lies along the x axis
C16_Witness ==
  /\ call = "calculateAdjacency"
  /\ IsHexominoLayout(faces)
  /\ \E r \in Refs(treeRet) :
       /\ treeRet.nodes[r].depth >= 3
       /\ FoldFrame(treeRet, r).up \in {<<1, 0, 0>>, <<-1, 0, 0>>}
       /\ Col(GlobalMatrix(treeRet, r).R, 2) = FoldFrame(treeRet, r).up

\* the values checkGeometricValidity can return
Verdicts ==
  {[isValid |-> TRUE]}
    \cup {[isValid |-> FALSE, message |-> m] : m \in {MSG_COUNT, MSG_CONNECT, MSG_OVERLAP}}

\* C18: for every list of six faces two of which are on one cell, each of the
\* four operations returns a value of its kind: isConnected a boolean,
\* checkGeometricValidity a verdict, buildFoldTree a tree whose nodes carry ids
\* of the input and refer to nodes of the tree, calculateAdjacency a map from
\* face ids to sides to connections.
C18_OverlapGetsResults ==
  (Len(faces) = 6 /\ HasOverlap(faces)) =>
    /\ (call = "isConnected") => connectedRet \in BOOLEAN
    /\ (call = "checkGeometricValidity") => statusRet \in Verdicts
    /\ (call = "buildFoldTree") =>
         /\ treeRet # Null
         /\ Len(treeRet.nodes) \in 1..Len(faces)
         /\ \A r \in Refs(treeRet) :
              /\ treeRet.nodes[r].id \in FaceIds(faces)
              /\ ChildRefs(treeRet, r) \subseteq Refs(treeRet)
    /\ (call = "calculateAdjacency") =>
         /\ DOMAIN adjacencyRet \subseteq FaceIds(faces)
         /\ \A a \in DOMAIN adjacencyRet :
              /\ DOMAIN adjacencyRet[a] \subseteq EdgeSide
              /\ \A side \in DOMAIN adjacencyRet[a] :
                   /\ adjacencyRet[a][side].targetFaceId \in FaceIds(faces)
                   /\ adjacencyRet[a][side].targetSide \in EdgeSide
                   /\ adjacencyRet[a][side].reversed \in BOOLEAN

\* an edge-connected list with two faces on one cell, folded to a map that has
\* no entry for one of the two
C18_Witness ==
  /\ call = "calculateAdjacency"
  /\ Len(faces) = 6 /\ HasOverlap(faces)
  /\ adjacencyRet # EmptyMap
  /\ DOMAIN adjacencyRet # FaceIds(faces)

\* C19: for every input with a non-empty map, collision-invalid layouts
\* included, each connection has its mirror: if side S of A is matched to side T
\* of B with reversed = r, then side T of B is matched to side S of A with the
\* same r.
C19_SymmetricOnEveryMap ==
  (call = "calculateAdjacency" /\ adjacencyRet # EmptyMap) =>
    \A a \in DOMAIN adjacencyRet : \A s \in DOMAIN adjacencyRet[a] :
      LET c == adjacencyRet[a][s]
          b == c.targetFaceId
          t == c.targetSide
      IN /\ b \in DOMAIN adjacencyRet
         /\ t \in DOMAIN adjacencyRet[b]
         /\ adjacencyRet[b][t].targetFaceId = a
         /\ adjacencyRet[b][t].targetSide = s
         /\ adjacencyRet[b][t].reversed = c.reversed

\* C20: in every render, calculateAdjacency is called only if the faces of that
\* render are valid, and the adjacencyMap of the render is {} whenever those
\* faces are invalid.
C20_ResolverGatedOnSnapshot ==
  (app.phase \in {"effect", "idle"}) =>
    /\ app.resolverRan => checkGeometricValidity(faces).isValid
    /\ ~checkGeometricValidity(faces).isValid => app.adjacencyMap = EmptyMap

\* nothing is pending, validity is the verdict on the current faces and
\* adjacencyMap is the resolver's map for them if they are valid, {} otherwise
AppSettled ==
  /\ app.phase = "idle"
  /\ app.validity = checkGeometricValidity(faces)
  /\ app.adjacencyMap \in IF checkGeometricValidity(faces).isValid
                          THEN {r.map : r \in calculateAdjacency(faces)}
                          ELSE {EmptyMap}

\* C21: whenever the App is not settled (a change of faces waits for its render
\* or its effect, or a stale verdict or map is on display), it reaches, faces
\* changing no further, a render after which validity is
\* checkGeometricValidity(faces) of the current faces and adjacencyMap is
\* calculateAdjacency(faces) if that verdict is valid and {} otherwise.
C21_EventuallySettled == (~AppSettled) ~> AppSettled

\* settled after a change from the valid initial layout to an invalid layout that
\* is edge-connected (the render in between had a map for it)
C21_Witness ==
  /\ AppSettled
  /\ app.events = 1
  /\ isConnected(faces)
  /\ ~app.validity.isValid
  /\ app.adjacencyMap = EmptyMap

\* C22: a ghost-slot move keeps the net connected: from an edge-connected layout,
\* moving the selected face to any of the move targets computed for it gives a
\* layout on which isConnected is true.
C22_GhostMoveKeepsConnected ==
  [][\A c \in moveTargets(faces, app.selectedId) :
       (isConnected(faces) /\ faces' = MoveFace(faces, app.selectedId, c))
         => isConnected(faces')]_vars

\* faces holds exactly six records with ids 0..5, all inside the grid, no two on
\* the same cell
PlacementOK(fs) ==
  /\ Len(fs) = NUM_FACES
  /\ \A i \in 1..Len(fs) : fs[i].id = i - 1
  /\ \A i \in 1..Len(fs) :
       fs[i].x >= 0 /\ fs[i].x < GRID_SIZE /\ fs[i].y >= 0 /\ fs[i].y < GRID_SIZE
  /\ \A i, j \in 1..Len(fs) : i # j => XY(fs[i].x, fs[i].y) # XY(fs[j].x, fs[j].y)

C28_AlwaysReversedOnValidNets ==
  (call = "calculateAdjacency" /\ checkGeometricValidity(faces).isValid) =>
    \A a \in DOMAIN adjacencyRet : \A s \in DOMAIN adjacencyRet[a] :
      adjacencyRet[a][s].reversed = TRUE

\* the map of a valid net with all four sides of every face connected, a hinge
\* and a closing edge among the connections
C28_Witness ==
  /\ call = "calculateAdjacency"
  /\ checkGeometricValidity(faces).isValid
  /\ DOMAIN adjacencyRet = FaceIds(faces)
  /\ \A a \in DOMAIN adjacencyRet : DOMAIN adjacencyRet[a] = EdgeSide
  /\ HingePairs(treeRet) # {}
  /\ ClosingPairs(treeRet, adjacencyRet) # {}
  /\ \A a \in DOMAIN adjacencyRet : \A s \in EdgeSide : adjacencyRet[a][s].reversed

\* C29: for every layout that checkGeometricValidity reports valid (here: among
\* the presets with one face moved) the map returned by calculateAdjacency is
\* the same for every permutation of the input list, whichever face the
\* permutation makes the root of the fold tree.
C29_MapIgnoresOrder ==
  (call = "calculateAdjacency" /\ faces \in MovedPresetInputs
     /\ checkGeometricValidity(faces).isValid) =>
    \A p \in Permutations(1..Len(faces)) :
      \A r \in calculateAdjacency(Permuted(faces, p)) : r.map = adjacencyRet

RECURSIVE Within(_, _, _)
\* the positions of fs at most n steps of Manhattan distance 1 away from positions R
Within(fs, R, n) ==
  IF n = 0 THEN R
  ELSE Within(fs, R \cup {k \in 1..Len(fs) : \E r \in R : Manhattan(fs[k], fs[r]) = 1}, n - 1)

\* the length of a shortest path from position r to position k in the
\* grid-adjacency graph of fs (k reachable from r)
GridDistance(fs, r, k) ==
  CHOOSE n \in 0..Len(fs) :
    /\ k \in Within(fs, {r}, n)
    /\ n > 0 => k \notin Within(fs, {r}, n - 1)

DirIndex(name) == CHOOSE d \in 1..Len(DIRS) : DIRS[d].name = name

PositionOfId(fs, id) == CHOOSE k \in 1..Len(fs) : fs[k].id = id

\* C30: in the tree of faces on distinct cells the root has depth 0, the depth of
\* every node is the length of a shortest path from the root face to its face
\* in the grid-adjacency graph, and the children of every node are listed in
\* the order top, bottom, left, right.
C30_DepthIsGridDistance ==
  (call = "buildFoldTree" /\ Len(faces) > 0 /\ DistinctCells(faces) /\ UniqueIds(faces)) =>
    /\ treeRet.nodes[treeRet.root].depth = 0
    /\ \A r \in Refs(treeRet) :
         /\ treeRet.nodes[r].depth =
              GridDistance(faces, PositionOfId(faces, treeRet.nodes[treeRet.root].id),
                           PositionOfId(faces, treeRet.nodes[r].id))
         /\ \A i, j \in DOMAIN treeRet.nodes[r].children :
              i < j => DirIndex(treeRet.nodes[treeRet.nodes[r].children[i]].directionFromParent)
                         < DirIndex(treeRet.nodes[treeRet.nodes[r].children[j]].directionFromParent)

\* a tree with a face that two faces of the level above touch, at depth 2 or
\* more, and a node with three children or more
C30_Witness ==
  /\ call = "buildFoldTree"
  /\ IsHexominoLayout(faces)
  /\ \E r \in Refs(treeRet) : Len(treeRet.nodes[r].children) >= 3
  /\ \E r \in Refs(treeRet) :
       /\ treeRet.nodes[r].depth >= 2
       /\ Cardinality({q \in Refs(treeRet) :
                         /\ treeRet.nodes[q].depth = treeRet.nodes[r].depth - 1
                         /\ Manhattan(FaceOfId(faces, treeRet.nodes[q].id),
                                      FaceOfId(faces, treeRet.nodes[r].id)) = 1}) >= 2

\* the corner of the selected face that a lowercase label names: the corner
\* that carries the same letter in upper case
UpperOf == [a |-> "A", b |-> "B", c |-> "C", d |-> "D"]

CornerNamed(adjacencyMap, selectedId, label) ==
  CHOOSE c \in 0..3 : getVertexLabels(adjacencyMap, selectedId, selectedId)[c] = UpperOf[label]

\* the corners of face id in the folded cube
CornersOfId(faceCorners, id) ==
  (CHOOSE e \in {faceCorners[k] : k \in DOMAIN faceCorners} : e.id = id).corners

\* C25: on every valid net, for every selected face S and every other face N,
\* each label that getVertexLabels puts on a corner of N names the corner of S
\* at the same point of the folded cube, and no two calls of applyLabels give one
\* corner of N different labels.
C25_LabelsFollowFold ==
  (call = "calculateAdjacency" /\ checkGeometricValidity(faces).isValid) =>
    LET faceCorners == traverse(treeRet, treeRet.root, Identity4)
    IN \A S \in DOMAIN adjacencyRet : \A N \in (DOMAIN adjacencyRet) \ {S} :
         LET labels == getVertexLabels(adjacencyRet, S, N)
             calls == labelCalls(adjacencyRet, S, N)
             written(k) == applyLabels(calls[k].side, calls[k].startLabel,
                                       calls[k].endLabel, NoLabels)
         IN /\ \A c \in DOMAIN labels :
                 /\ labels[c] \in DOMAIN UpperOf
                 /\ CornersOfId(faceCorners, N)[c + 1]
                      = CornersOfId(faceCorners, S)[CornerNamed(adjacencyRet, S, labels[c]) + 1]
            /\ \A i, j \in DOMAIN calls :
                 \A c \in (DOMAIN written(i)) \cap (DOMAIN written(j)) :
                   written(i)[c] = written(j)[c]

\* a valid net with a selected face whose four neighbours on the cube all carry
\* two labels, one of them across a closing edge, and the sixth face none
C25_Witness ==
  /\ call = "calculateAdjacency"
  /\ checkGeometricValidity(faces).isValid
  /\ DOMAIN adjacencyRet = FaceIds(faces)
  /\ \E S \in DOMAIN adjacencyRet :
       /\ Cardinality({N \in DOMAIN adjacencyRet :
                         N # S /\ Cardinality(DOMAIN getVertexLabels(adjacencyRet, S, N)) = 2}) = 4
       /\ \E N \in DOMAIN adjacencyRet :
            N # S /\ getVertexLabels(adjacencyRet, S, N) = NoLabels
       /\ \E N \in DOMAIN adjacencyRet :
            /\ N # S
            /\ getVertexLabels(adjacencyRet, S, N) # NoLabels
            /\ Manhattan(FaceOfId(faces, S), FaceOfId(faces, N)) > 1

\* the two end points of a side of a face in the folded cube
SideEnds(faceCorners, id, side) ==
  LET e == CHOOSE d \in {edgeDefs[k] : k \in DOMAIN edgeDefs} : d.side = side
  IN {CornersOfId(faceCorners, id)[e.i1 + 1], CornersOfId(faceCorners, id)[e.i2 + 1]}

\* C26: every entry adjacency[A][S] carries the color SIDE_COLORS[S]; and on every
\* valid net, for every selected face S0, a side t of another face N is
\* highlighted (in the editor and in the 3D view) exactly when
\* adjacency[N][t].targetFaceId = S0, in the color
\* SIDE_COLORS[adjacency[N][t].targetSide], which is the color shown on the side of
\* S0 that coincides with side t of N.
C26_SharedEdgeOneColor ==
  (call = "calculateAdjacency") =>
    /\ \A A \in DOMAIN adjacencyRet : \A S \in DOMAIN adjacencyRet[A] :
         adjacencyRet[A][S].color = SIDE_COLORS[S]
    /\ checkGeometricValidity(faces).isValid =>
         LET faceCorners == traverse(treeRet, treeRet.root, Identity4)
         IN \A S0 \in DOMAIN adjacencyRet : \A N \in (DOMAIN adjacencyRet) \ {S0} :
              \A t \in EdgeSide :
                LET shown == getHighlights(adjacencyRet, S0, N)
                    own == getHighlights(adjacencyRet, S0, S0)
                    touches == /\ t \in DOMAIN adjacencyRet[N]
                               /\ adjacencyRet[N][t].targetFaceId = S0
                IN /\ (t \in DOMAIN shown) <=> touches
                   /\ (getBorderColor(adjacencyRet, S0, N, t) # NoColor) <=> touches
                   /\ touches =>
                        LET s == adjacencyRet[N][t].targetSide
                        IN /\ shown[t].color = SIDE_COLORS[s]
                           /\ getBorderColor(adjacencyRet, S0, N, t) = SIDE_COLORS[s]
                           /\ s \in DOMAIN own
                           /\ own[s].color = shown[t].color
                           /\ getBorderColor(adjacencyRet, S0, S0, s) = shown[t].color
                           /\ SideEnds(faceCorners, S0, s) = SideEnds(faceCorners, N, t)

\* a valid net with a selected face and a neighbour whose touching side has
\* another name, hence another color of its own, than the side of the selected
\* face it lies on
C26_Witness ==
  /\ call = "calculateAdjacency"
  /\ checkGeometricValidity(faces).isValid
  /\ \E S0 \in DOMAIN adjacencyRet : \E N \in (DOMAIN adjacencyRet) \ {S0} :
       \E t \in DOMAIN getHighlights(adjacencyRet, S0, N) :
         /\ adjacencyRet[N][t].color # getHighlights(adjacencyRet, S0, N)[t].color
         /\ getBorderColor(adjacencyRet, S0, N, t) = SIDE_COLORS[adjacencyRet[N][t].targetSide]
         /\ \E u \in EdgeSide : u \notin DOMAIN getHighlights(adjacencyRet, S0, N)

\* C23: whenever no stroke is in progress the last entry of the undo history is
\* the picture on the canvas (so that undo, which pops the last entry and paints
\* the new last one, takes back the most recent change), after any sequence of
\* strokes, undos, fill, hatch and clear.
C23_LastEntryIsCanvas ==
  ~paint.isDrawing =>
    /\ Len(paint.history) >= 1
    /\ paint.history[Len(paint.history)] = paint.canvas

\* C24: the undo history never holds fewer than 1 or more than 21 entries, and
\* undo changes nothing when one entry is left.
C24_HistoryBounded ==
  /\ Len(paint.history) >= 1
  /\ Len(paint.history) <= HISTORY_LIMIT + 1
  /\ Len(paint.history) = 1 => undo(paint) = paint

\* a full history from which the oldest entries have been dropped: the white
\* picture of the start is gone, and pictures drawn later are in it
C24_Witness ==
  /\ Len(paint.history) = HISTORY_LIMIT + 1
  /\ paint.history[1] # WHITE
  /\ paint.history[Len(paint.history)] # paint.history[1]
  /\ ~paint.isDrawing

====
